---------------------------- MODULE Spec2Model ----------------------------
(***************************************************************************)
(* A model of the identicon renderer (package identicon, identicon.go).   *)
(*                                                                         *)
(* Render(code, totalSize, settings) is modelled as a sequence of steps of *)
(* one call (a position pc and the call's local variables), so that calls  *)
(* can be interleaved; the Settings object a caller passes by pointer, the *)
(* package variables pathSet and middlePatchSet are state shared by all    *)
(* calls.                                                                  *)
(*                                                                         *)
(* Representation choices:                                                 *)
(*  - a uint64 is four 16-bit limbs, limb 0 the least significant, because *)
(*    the model checker's integers are 32 bits wide;                       *)
(*  - a Go string is a sequence of one-character strings;                  *)
(*  - a float64 pixel coordinate is an exact integer number of sixths of   *)
(*    a pixel (patchSize = totalSize/3, penWidth/2 = 1/2);                 *)
(*  - a gg.Context is the sequence of fills performed on it;               *)
(*  - the filled region of a tile is the set of sample points of the tile  *)
(*    at which the compound path has a nonzero winding number;             *)
(*  - math/rand's generator is a library outside the repository: it is     *)
(*    represented by a deterministic generator with the library's seeding  *)
(*    recurrence (seedrand) as its step and the library's Int31n on top.   *)
(*    Index values therefore stand for, and are not equal to, the          *)
(*    library's.                                                           *)
(***************************************************************************)
EXTENDS Integers, Sequences, FiniteSets

VARIABLES
    settings,        \* the Settings object the callers share (*Settings)
    pathSet,         \* package variable pathSet
    middlePatchSet,  \* package variable middlePatchSet
    calls,           \* the Render calls: call id -> pc and locals
    harness          \* a direct use of drawPatch: plain and inverted

vars == <<settings, pathSet, middlePatchSet, calls, harness>>

---------------------------------------------------------------------------
(* Bounds of the model.                                                    *)

\* codes of Spec take limb 0 from (k * LowStride) % 2^16, k in 0..MaxLowIdx
MaxLowIdx == 47
\* codes of Spec take limb 1 from 0..MaxLimb1 (bit 16 is sideTurn's high bit)
MaxLimb1 == 1
\* concurrent Render calls of SpecPar
NumCalls == 2
\* drawPatch is tried with turn counts 0..MaxTurn
MaxTurn == 7

---------------------------------------------------------------------------
(* uint64 as four 16-bit limbs.                                            *)

Pow2(n) == 2 ^ n

LimbBase == 65536

U64(l3, l2, l1, l0) == [i \in 0..3 |-> CASE i = 0 -> l0 [] i = 1 -> l1
                                           [] i = 2 -> l2 [] OTHER -> l3]

Limb(c, i) == IF i \in 0..3 THEN c[i] ELSE 0

\* c >> k, 0 <= k < 64
ShiftRight(c, k) ==
    LET q == k \div 16
        r == k % 16
    IN  [i \in 0..3 |->
            (Limb(c, i + q) \div Pow2(r))
            + (Limb(c, i + q + 1) % Pow2(r)) * Pow2(16 - r)]

RECURSIVE And16(_, _)
\* bitwise AND of two 16-bit values
And16(a, b) ==
    IF a = 0 \/ b = 0 THEN 0
    ELSE (a % 2) * (b % 2) + 2 * And16(a \div 2, b \div 2)

\* int(c & mask) for a mask below 2^16: the result fits limb 0
AndMask(c, mask) == And16(c[0], mask)

\* math.MaxInt32
MaxInt32 == 2147483647

\* (a + b) % MaxInt32 for a, b in 0..MaxInt32, without leaving 32 bits
AddModMaxInt32(a, b) ==
    LET a1 == IF a = MaxInt32 THEN 0 ELSE a
        b1 == IF b = MaxInt32 THEN 0 ELSE b
    IN  IF a1 >= MaxInt32 - b1 THEN a1 - (MaxInt32 - b1) ELSE a1 + b1

\* c % math.MaxInt32: 2^31 = 1 (mod 2^31 - 1), so c is congruent to the sum
\* of its bits 0-30, bits 31-61 and bits 62-63
ModMaxInt32(c) ==
    LET lo  == c[0] + (c[1] % 32768) * LimbBase
        mid == (c[1] \div 32768) + 2 * c[2] + (c[3] % 16384) * 131072
        hi  == c[3] \div 16384
    IN  AddModMaxInt32(AddModMaxInt32(lo, mid), hi)

---------------------------------------------------------------------------
(* Strings and hexConvert.                                                 *)

LowerHex == <<"0", "1", "2", "3", "4", "5", "6", "7", "8", "9",
              "a", "b", "c", "d", "e", "f">>
UpperHex == <<"0", "1", "2", "3", "4", "5", "6", "7", "8", "9",
              "A", "B", "C", "D", "E", "F">>

\* a table that lacks the digit f
reverseHexTable_NoF(ch) ==
    IF \E i \in 1..15 : LowerHex[i] = ch
    THEN (CHOOSE i \in 1..15 : LowerHex[i] = ch) - 1
    ELSE 255
\* encoding/hex's reverseHexTable: the digit's value, 255 for any other byte
reverseHexTable(ch) ==
    IF \E i \in 1..16 : LowerHex[i] = ch
    THEN (CHOOSE i \in 1..16 : LowerHex[i] = ch) - 1
    ELSE IF \E i \in 1..16 : UpperHex[i] = ch
    THEN (CHOOSE i \in 1..16 : UpperHex[i] = ch) - 1
    ELSE 255

NoError == [kind |-> "nil", arg |-> ""]
ErrLength == [kind |-> "ErrLength", arg |-> ""]
InvalidByteError(ch) == [kind |-> "InvalidByteError", arg |-> ch]
ErrNotSixDigits ==
    [kind |-> "errors.New", arg |-> "code must be 6 digits long hex string"]

\* every leading prefix character removed (strings.TrimLeft)
TrimPrefix_All(s, prefix) ==
    IF Len(s) >= 2 /\ s[1] = prefix /\ s[2] = prefix THEN SubSeq(s, 3, Len(s))
    ELSE IF Len(s) >= 1 /\ s[1] = prefix THEN SubSeq(s, 2, Len(s)) ELSE s
\* strings.TrimPrefix(s, prefix) for a one-character prefix
TrimPrefix(s, prefix) ==
    IF Len(s) >= 1 /\ s[1] = prefix THEN SubSeq(s, 2, Len(s)) ELSE s

RECURSIVE hexDecode(_, _, _)
\* encoding/hex Decode: pairs from position j-1, j; dst holds the bytes so far
hexDecode(src, j, dst) ==
    IF j <= Len(src)
    THEN LET a == reverseHexTable(src[j - 1])
             b == reverseHexTable(src[j])
         IN  IF a > 15 THEN [b |-> dst, err |-> InvalidByteError(src[j - 1])]
             ELSE IF b > 15 THEN [b |-> dst, err |-> InvalidByteError(src[j])]
             ELSE hexDecode(src, j + 2, Append(dst, a * 16 + b))
    ELSE IF Len(src) % 2 = 1
    THEN IF reverseHexTable(src[j - 1]) > 15
         THEN [b |-> dst, err |-> InvalidByteError(src[j - 1])]
         ELSE [b |-> dst, err |-> ErrLength]
    ELSE [b |-> dst, err |-> NoError]

\* encoding/hex DecodeString
hexDecodeString(s) == hexDecode(s, 2, <<>>)

\* hexConvert without its check of the length
hexConvert_AnyLength(code) ==
    LET trimmed == TrimPrefix(code, "#")
        d == hexDecodeString(trimmed)
    IN  IF d.err # NoError
        THEN [red |-> 0, green |-> 0, blue |-> 0, err |-> d.err]
        ELSE [red |-> IF Len(d.b) > 0 THEN d.b[1] ELSE 0,
              green |-> IF Len(d.b) > 1 THEN d.b[2] ELSE 0,
              blue |-> IF Len(d.b) > 2 THEN d.b[3] ELSE 0,
              err |-> NoError]
hexConvert(code) ==
    LET trimmed == TrimPrefix(code, "#")
        d == hexDecodeString(trimmed)
    IN  IF d.err # NoError
        THEN [red |-> 0, green |-> 0, blue |-> 0, err |-> d.err]
        ELSE IF Len(d.b) # 3
        THEN [red |-> 0, green |-> 0, blue |-> 0, err |-> ErrNotSixDigits]
        ELSE [red |-> d.b[1], green |-> d.b[2], blue |-> d.b[3],
              err |-> NoError]

---------------------------------------------------------------------------
(* The pseudo-random generator (math/rand).                                *)

\* rand.NewSource(seed): the library maps a zero seed to 89482311
randNewSource(seed) == IF seed = 0 THEN 89482311 ELSE seed

\* the library's seedrand: x = 48271 * x mod (2^31 - 1), by Schrage's method
seedrand(x) ==
    LET hi == x \div 44488
        lo == x % 44488
        y  == 48271 * lo - 3399 * hi
    IN  IF y < 0 THEN y + MaxInt32 ELSE y

\* one step of the generator: the next state, which is also the 31-bit value
randInt31(x) == seedrand(x)

\* 2^31 % n, within 32 bits
Pow31Mod(n) == ((MaxInt32 % n) + 1) % n

RECURSIVE randReject(_, _, _)
\* Int31n's loop: for v > max { v = r.Int31() }
randReject(x, max, n) ==
    IF x > max THEN randReject(randInt31(x), max, n)
    ELSE [state |-> x, value |-> x % n]

\* rnd.Intn(n), 0 < n <= MaxInt32: the generator's next state and the index
randIntn(x, n) ==
    LET v == randInt31(x)
    IN  IF And16(n % LimbBase, (n - 1) % LimbBase) = 0 /\ n < LimbBase
        THEN [state |-> v, value |-> v % n]
        ELSE randReject(v, MaxInt32 - Pow31Mod(n), n)

---------------------------------------------------------------------------
(* The patch catalog and the middle lookup table.                          *)

Pt(x, y) == [X |-> x, Y |-> y]

\* var pathSet; template t of the source is PathSetInit[t + 1]
PathSetInit == <<
    \* [0] full square
    <<Pt(0, 0), Pt(4, 0), Pt(4, 4), Pt(0, 4)>>,
    \* [1] right-angled triangle pointing top-left
    <<Pt(0, 0), Pt(4, 0), Pt(0, 4)>>,
    \* [2] upwardy triangle
    <<Pt(2, 0), Pt(4, 4), Pt(0, 4)>>,
    \* [3] left half of square, standing rectangle
    <<Pt(0, 0), Pt(2, 0), Pt(2, 4), Pt(0, 4)>>,
    \* [4] square standing on diagonale
    <<Pt(2, 0), Pt(4, 2), Pt(2, 4), Pt(0, 2)>>,
    \* [5] kite pointing topleft
    <<Pt(0, 0), Pt(4, 2), Pt(4, 4), Pt(2, 4)>>,
    \* [6] Sierpinski triangle, fractal triangles
    <<Pt(2, 0), Pt(4, 4), Pt(2, 4), Pt(3, 2), Pt(1, 2), Pt(2, 4), Pt(0, 4)>>,
    \* [7] sharp angled lefttop pointing triangle
    <<Pt(0, 0), Pt(4, 2), Pt(2, 4)>>,
    \* [8] small centered square
    <<Pt(1, 1), Pt(3, 1), Pt(3, 3), Pt(1, 3)>>,
    \* [9] two small triangles
    <<Pt(2, 0), Pt(4, 0), Pt(0, 4), Pt(0, 2), Pt(2, 2)>>,
    \* [10] small topleft square
    <<Pt(0, 0), Pt(2, 0), Pt(2, 2), Pt(0, 2)>>,
    \* [11] downpointing right-angled triangle on bottom
    <<Pt(0, 2), Pt(4, 2), Pt(2, 4)>>,
    \* [12] uppointing right-angled triangle on bottom
    <<Pt(2, 2), Pt(4, 4), Pt(0, 4)>>,
    \* [13] small rightbottom pointing right-angled triangle on topleft
    <<Pt(2, 0), Pt(2, 2), Pt(0, 2)>>,
    \* [14] small lefttop pointing right-angled triangle on topleft
    <<Pt(0, 0), Pt(2, 0), Pt(0, 2)>>,
    \* [15] empty
    <<>> >>

\* var middlePatchSet; entry i of the source is MiddlePatchSetInit[i + 1]
MiddlePatchSetInit == <<0, 4, 8, 15>>

---------------------------------------------------------------------------
(* gg.Context: the fills performed, and the region a fill covers.          *)
(* Lengths are in sixths of a pixel; path points are in quarters of the    *)
(* patch size (the catalog's 4x4 grid), as drawPatch scales them.          *)

\* color.RGBA{R, G, B, A}
RGBA(r, g, b, a) == [R |-> r, G |-> g, B |-> b, A |-> a]

\* gg.NewContext(totalSize, totalSize): nothing drawn yet
NewContext(totalSize) == [size |-> totalSize, fills |-> <<>>]

\* image.DrawRectangle(0, 0, totalSize, totalSize); SetRGB255; Fill
FillBackground(image, totalSize, r, g, b) ==
    [image EXCEPT !.fills = Append(@,
        [kind |-> "rect", pos |-> Pt(0, 0), turn |-> 0, invert |-> FALSE,
         type |-> -1, color |-> RGBA(r, g, b, 255),
         translate |-> Pt(0, 0), extent |-> 6 * totalSize,
         path |-> << <<Pt(0, 0), Pt(4, 0), Pt(4, 4), Pt(0, 4)>> >>])]

\* the tile's boundary traced the other way round
TileBoundary_Reversed == <<Pt(0, 0), Pt(4, 0), Pt(4, 4), Pt(0, 4)>>
\* the second sub-path of an inverted patch: MoveTo(0, 0),
\* LineTo(0, patchSize), LineTo(patchSize, patchSize), LineTo(patchSize, 0)
TileBoundary == <<Pt(0, 0), Pt(0, 4), Pt(4, 4), Pt(4, 0)>>

\* the translation of drawPatch, in sixths of a pixel:
\* pos * patchSize + float64(penWidth)/2, with patchSize = totalSize / 3
PatchOrigin(posCoord, totalSize, penWidth) ==
    posCoord * (2 * totalSize) + 3 * penWidth

drawPatch(pos, turn, invert, type_, image, totalSize, foreColor, penWidth) ==
    LET path == pathSet[type_ + 1]
        t == turn % 4
        template == IF path = <<>> THEN <<>> ELSE <<path>>
        compound == IF invert THEN Append(template, TileBoundary)
                    ELSE template
    IN  [image EXCEPT !.fills = Append(@,
            [kind |-> "patch", pos |-> pos, turn |-> t, invert |-> invert,
             type |-> type_, color |-> foreColor,
             translate |-> Pt(PatchOrigin(pos.X, totalSize, penWidth),
                              PatchOrigin(pos.Y, totalSize, penWidth)),
             extent |-> 2 * totalSize,
             path |-> compound])]

\* RotateAbout(turn * Pi/2, patchSize/2, patchSize/2) on a point of the 4x4
\* grid: a quarter turn takes (x, y) to (4 - y, x)
RECURSIVE RotatePoint(_, _)
RotatePoint(p, t) ==
    IF t = 0 THEN p ELSE RotatePoint(Pt(4 - p.Y, p.X), t - 1)

\* Sample points of a tile, in eighths of a grid unit (the tile is 32 x 32).
\* No sample lies on a line through grid points of slope 0, 1, 2, 1/2 or
\* their negatives, and the set is unchanged by a quarter turn.
SampleOffsets == {<<1, 3>>, <<5, 1>>, <<7, 5>>, <<3, 7>>}
TileSamples ==
    {Pt(8 * i + o[1], 8 * j + o[2]) : i \in 0..3, j \in 0..3, o \in SampleOffsets}

\* the contribution of the edge a -> b to the winding number at s
\* (a, b in grid units, s in eighths)
EdgeWinding(a, b, s) ==
    LET ax == 8 * a.X
        ay == 8 * a.Y
        bx == 8 * b.X
        by == 8 * b.Y
        side == (bx - ax) * (s.Y - ay) - (s.X - ax) * (by - ay)
    IN  IF ay <= s.Y /\ by > s.Y /\ side > 0 THEN 1
        ELSE IF ay > s.Y /\ by <= s.Y /\ side < 0 THEN -1
        ELSE 0

RECURSIVE SubPathWinding(_, _, _)
\* the winding number at s of the closed sub-path, edges i.. of it
SubPathWinding(sub, i, s) ==
    IF i > Len(sub) THEN 0
    ELSE EdgeWinding(sub[i], sub[IF i = Len(sub) THEN 1 ELSE i + 1], s)
         + SubPathWinding(sub, i + 1, s)

RECURSIVE PathWinding(_, _, _)
PathWinding(path, k, s) ==
    IF k > Len(path) THEN 0
    ELSE SubPathWinding(path[k], 1, s) + PathWinding(path, k + 1, s)

\* image.Fill() with gg's default fill rule (nonzero winding): the sample
\* points of the tile the fill covers, in the tile's frame after rotation
FilledRegion(fill) ==
    LET rotated == [k \in 1..Len(fill.path) |->
                      [i \in 1..Len(fill.path[k]) |->
                          RotatePoint(fill.path[k][i], fill.turn)]]
    IN  {s \in TileSamples : PathWinding(rotated, 1, s) # 0}

---------------------------------------------------------------------------
(* Settings.                                                               *)

\* var DefaultColorPalette
DefaultColorPalette == <<
    [Name |-> "lightBlack", Code |-> <<"#", "2", "c", "2", "c", "2", "c">>],
    [Name |-> "lightBlackIntense", Code |-> <<"#", "2", "3", "2", "3", "2", "3">>],
    [Name |-> "turquoise", Code |-> <<"#", "0", "0", "b", "f", "9", "3">>],
    [Name |-> "turquoiseIntense", Code |-> <<"#", "1", "6", "a", "0", "8", "6">>],
    [Name |-> "mint", Code |-> <<"#", "2", "d", "c", "c", "7", "0">>],
    [Name |-> "mintIntense", Code |-> <<"#", "2", "7", "a", "e", "6", "1">>],
    [Name |-> "green", Code |-> <<"#", "4", "2", "e", "4", "5", "3">>],
    [Name |-> "greenIntense", Code |-> <<"#", "2", "4", "c", "3", "3", "3">>],
    [Name |-> "yellow", Code |-> <<"#", "f", "f", "f", "f", "2", "5">>],
    [Name |-> "yellowIntense", Code |-> <<"#", "d", "9", "d", "9", "2", "1">>],
    [Name |-> "yellowOrange", Code |-> <<"#", "f", "1", "c", "4", "0", "f">>],
    [Name |-> "yellowOrangeIntense", Code |-> <<"#", "f", "3", "9", "c", "1", "1">>],
    [Name |-> "brown", Code |-> <<"#", "e", "6", "7", "f", "2", "2">>],
    [Name |-> "brownIntense", Code |-> <<"#", "d", "2", "5", "4", "0", "0">>],
    [Name |-> "orange", Code |-> <<"#", "f", "f", "9", "4", "4", "e">>],
    [Name |-> "orangeIntense", Code |-> <<"#", "f", "f", "5", "5", "0", "0">>],
    [Name |-> "red", Code |-> <<"#", "e", "8", "4", "c", "3", "d">>],
    [Name |-> "redIntense", Code |-> <<"#", "c", "1", "3", "9", "2", "b">>],
    [Name |-> "blue", Code |-> <<"#", "3", "5", "9", "8", "d", "b">>],
    [Name |-> "blueIntense", Code |-> <<"#", "2", "9", "7", "f", "b", "8">>],
    [Name |-> "darkBlue", Code |-> <<"#", "3", "4", "4", "9", "5", "e">>],
    [Name |-> "darkBlueIntense", Code |-> <<"#", "2", "d", "3", "e", "5", "0">>],
    [Name |-> "lightGrey", Code |-> <<"#", "e", "c", "f", "0", "f", "1">>],
    [Name |-> "lightGreyIntense", Code |-> <<"#", "b", "e", "c", "3", "c", "7">>],
    [Name |-> "grey", Code |-> <<"#", "9", "5", "a", "5", "a", "5">>],
    [Name |-> "greyIntense", Code |-> <<"#", "7", "e", "8", "c", "8", "d">>],
    [Name |-> "magenta", Code |-> <<"#", "e", "f", "3", "e", "9", "6">>],
    [Name |-> "magentaIntense", Code |-> <<"#", "e", "5", "2", "3", "8", "3">>],
    [Name |-> "violet", Code |-> <<"#", "d", "f", "2", "1", "b", "9">>],
    [Name |-> "violetIntense", Code |-> <<"#", "b", "e", "1", "2", "7", "e">>],
    [Name |-> "purple", Code |-> <<"#", "9", "a", "5", "9", "b", "5">>],
    [Name |-> "purpleIntense", Code |-> <<"#", "8", "d", "4", "4", "a", "d">>],
    [Name |-> "lightBlue", Code |-> <<"#", "7", "d", "c", "2", "d", "2">>],
    [Name |-> "lightBlueIntense", Code |-> <<"#", "1", "c", "a", "b", "b", "b">>],
    [Name |-> "white", Code |-> <<"#", "f", "f", "f", "f", "f", "f">>],
    [Name |-> "whiteIntense", Code |-> <<"#", "f", "3", "f", "5", "f", "7">>],
    [Name |-> "black", Code |-> <<"#", "0", "0", "0", "0", "0", "0">>] >>

\* backgroundColors of DefaultSettings
DefaultBackgroundColors == <<
    <<"#", "f", "3", "f", "5", "f", "7">>,
    <<"#", "e", "c", "f", "0", "f", "1">>,
    <<"#", "2", "d", "3", "e", "5", "0">>,
    <<"#", "3", "9", "3", "9", "3", "9">> >>

DefaultSettings ==
    [TwoColor |-> TRUE,
     Alpha |-> 255,
     ColorPalette |-> DefaultColorPalette,
     TransparentBackground |-> FALSE,
     BackgroundColors |-> DefaultBackgroundColors]

\* palettes a caller may configure: valid ones (with and without '#', upper
\* case), and ones with entries that are not six hex digits
SmallPalette == <<
    [Name |-> "red", Code |-> <<"#", "f", "f", "0", "0", "0", "0">>],
    [Name |-> "green", Code |-> <<"0", "0", "F", "F", "0", "0">>],
    [Name |-> "blue", Code |-> <<"#", "0", "0", "0", "0", "f", "F">>] >>
OnePalette == << [Name |-> "grey", Code |-> <<"#", "9", "5", "a", "5", "a", "5">>] >>
BadPalette == <<
    [Name |-> "bad", Code |-> <<"#", "z", "z", "z">>],
    [Name |-> "white", Code |-> <<"#", "f", "f", "f", "f", "f", "f">>] >>
MixedPalette == <<
    [Name |-> "odd", Code |-> <<"#", "1", "2", "3", "4", "5">>],
    [Name |-> "long", Code |-> <<"#", "1", "1", "2", "2", "3", "3", "4", "4">>],
    [Name |-> "hashes", Code |-> <<"#", "#", "a", "a", "b", "b", "c", "c">>],
    [Name |-> "empty", Code |-> <<>>],
    [Name |-> "ok", Code |-> <<"#", "a", "b", "c", "d", "e", "f">>],
    [Name |-> "oddbad", Code |-> <<"1", "2", "3", "4", "g">>] >>
BadBackgrounds == << <<"#", "f", "f", "f">>, <<"#", "1", "0", "1", "0", "1", "0">> >>
OneBackground == << <<"2", "0", "2", "0", "2", "0">> >>
\* the settings of Spec: the default, and configured ones
AllSettings ==
    {DefaultSettings}
    \cup {[TwoColor |-> tc, Alpha |-> 128, ColorPalette |-> pal,
           TransparentBackground |-> tb, BackgroundColors |-> bg] :
            tc \in BOOLEAN, tb \in BOOLEAN,
            pal \in {SmallPalette, BadPalette, MixedPalette},
            bg \in {BadBackgrounds}}
    \cup {[TwoColor |-> TRUE, Alpha |-> 255, ColorPalette |-> OnePalette,
           TransparentBackground |-> FALSE, BackgroundColors |-> OneBackground]}

\* the settings of SpecPar
ParSettings ==
    {[TwoColor |-> tc, Alpha |-> 255, ColorPalette |-> pal,
      TransparentBackground |-> FALSE,
      BackgroundColors |-> DefaultBackgroundColors] :
        tc \in BOOLEAN, pal \in {SmallPalette, BadPalette}}

---------------------------------------------------------------------------
(* The inputs.                                                             *)

LowStride == 14193

\* bit 47 is bit 15 of limb 2
HighLimbs == {<<0, 0>>, <<0, 32768>>, <<51966, 47806>>, <<51966, 15038>>}

Codes ==
    {U64(h[1], h[2], l1, (k * LowStride) % LimbBase) :
        h \in HighLimbs, l1 \in 0..MaxLimb1, k \in 0..MaxLowIdx}

Sizes == {300, 1024}

\* the codes of SpecPar: a code, the same code with bit 47 flipped, and a
\* third that differs from it in the top limb
ParCodes ==
    {U64(0, 1, 1, 46289), U64(0, 32769, 1, 46289), U64(4660, 32769, 1, 46289)}

ParSizes == {1024}

---------------------------------------------------------------------------
(* Render.                                                                 *)

ZeroRGB == [red |-> 0, green |-> 0, blue |-> 0]
NilImage == [size |-> 0, fills |-> <<>>]

\* a call of Render(code, totalSize, settings) that has not yet run
NewCall(code, totalSize) ==
    [pc |-> "start", code |-> code, totalSize |-> totalSize,
     rnd |-> 0, draws |-> <<>>, penWidth |-> 0,
     middleType |-> 0, middleInvert |-> FALSE,
     cornerType |-> 0, cornerInvert |-> FALSE, cornerTurn |-> 0,
     sideType |-> 0, sideInvert |-> FALSE, sideTurn |-> 0,
     swapCross |-> FALSE,
     first |-> ZeroRGB, second |-> ZeroRGB,
     foreColor |-> RGBA(0, 0, 0, 0), secondColor |-> RGBA(0, 0, 0, 0),
     middleColor |-> RGBA(0, 0, 0, 0),
     image |-> NilImage, i |-> 0,
     ret |-> [isNil |-> TRUE, image |-> NilImage, err |-> NoError]]

\* the seed taken with a mask: code & math.MaxInt32
SeedOf_Masked(code) ==
    randNewSource(code[0] + (code[1] % 32768) * LimbBase)
\* rnd := rand.New(rand.NewSource(int64(code % math.MaxInt32)))
SeedOf(code) == randNewSource(ModMaxInt32(code))

\* the bit-field decoding of lines 117-130
DecodeMiddleRaw(code) == AndMask(code, 3)
DecodeMiddleInvert(code) == AndMask(ShiftRight(code, 2), 1) = 1
\* the corner template read one bit too high
DecodeCornerType_Shifted(code) == AndMask(ShiftRight(code, 4), 15)
DecodeCornerType(code) == AndMask(ShiftRight(code, 3), 15)
DecodeCornerInvert(code) == AndMask(ShiftRight(code, 7), 1) = 1
DecodeCornerTurn(code) == AndMask(ShiftRight(code, 8), 3)
DecodeSideType(code) == AndMask(ShiftRight(code, 10), 15)
DecodeSideInvert(code) == AndMask(ShiftRight(code, 14), 1) = 1
\* the side turn read at bit 47
DecodeSideTurn_High(code) == AndMask(ShiftRight(code, 47), 3)
DecodeSideTurn(code) == AndMask(ShiftRight(code, 15), 3)
DecodeSwapCross(code) == AndMask(ShiftRight(code, 47), 1) = 1

\* return nil, err
ReturnError(c, err) ==
    [c EXCEPT !.pc = "done",
              !.ret = [isNil |-> TRUE, image |-> NilImage, err |-> err]]

\* lines 113-130
RenderBegin(p) ==
    /\ calls[p].pc = "start"
    /\ LET c == calls[p]
       IN  calls' = [calls EXCEPT ![p] =
              [c EXCEPT !.pc = "first",
                        !.rnd = SeedOf(c.code),
                        !.penWidth = 1,
                        !.middleType =
                            middlePatchSet[DecodeMiddleRaw(c.code) + 1],
                        !.middleInvert = DecodeMiddleInvert(c.code),
                        !.cornerType = DecodeCornerType(c.code),
                        !.cornerInvert = DecodeCornerInvert(c.code),
                        !.cornerTurn = DecodeCornerTurn(c.code),
                        !.sideType = DecodeSideType(c.code),
                        !.sideInvert = DecodeSideInvert(c.code),
                        !.sideTurn = DecodeSideTurn(c.code),
                        !.swapCross = DecodeSwapCross(c.code)]]
    /\ UNCHANGED <<settings, pathSet, middlePatchSet, harness>>

\* rnd.Intn(n) by call c: the call with the generator advanced and the draw
\* logged, and the index drawn
Draw(c, n) ==
    LET r == randIntn(c.rnd, n)
    IN  [call |-> [c EXCEPT !.rnd = r.state,
                            !.draws = Append(@, [n |-> n, value |-> r.value])],
         value |-> r.value]

\* lines 132-136
FirstColor(p) ==
    /\ calls[p].pc = "first"
    /\ LET d == Draw(calls[p], Len(settings.ColorPalette))
           randomFirstColor == settings.ColorPalette[d.value + 1]
           h == hexConvert(randomFirstColor.Code)
       IN  calls' = [calls EXCEPT ![p] =
              IF h.err # NoError THEN ReturnError(d.call, h.err)
              ELSE [d.call EXCEPT !.pc = "second",
                                  !.first = [red |-> h.red, green |-> h.green,
                                             blue |-> h.blue]]]
    /\ UNCHANGED <<settings, pathSet, middlePatchSet, harness>>

\* lines 137-141
SecondColor(p) ==
    /\ calls[p].pc = "second"
    /\ LET d == Draw(calls[p], Len(settings.ColorPalette))
           randomSecondColor == settings.ColorPalette[d.value + 1]
           h == hexConvert(randomSecondColor.Code)
       IN  calls' = [calls EXCEPT ![p] =
              IF h.err # NoError THEN ReturnError(d.call, h.err)
              ELSE [d.call EXCEPT !.pc = "colors",
                                  !.second = [red |-> h.red, green |-> h.green,
                                              blue |-> h.blue]]]
    /\ UNCHANGED <<settings, pathSet, middlePatchSet, harness>>

\* lines 143-157
ResolveColors(p) ==
    /\ calls[p].pc = "colors"
    /\ LET c == calls[p]
           foreColor == RGBA(c.first.red, c.first.green, c.first.blue,
                             settings.Alpha)
           secondColor == IF settings.TwoColor
                          THEN RGBA(c.second.red, c.second.green,
                                    c.second.blue, settings.Alpha)
                          ELSE foreColor
           middleColor == IF c.swapCross THEN foreColor ELSE secondColor
       IN  calls' = [calls EXCEPT ![p] =
              [c EXCEPT !.pc = "background",
                        !.foreColor = foreColor,
                        !.secondColor = secondColor,
                        !.middleColor = middleColor,
                        !.image = NewContext(c.totalSize)]]
    /\ UNCHANGED <<settings, pathSet, middlePatchSet, harness>>

\* lines 159-168
Background(p) ==
    /\ calls[p].pc = "background"
    /\ calls' = [calls EXCEPT ![p] =
          IF ~settings.TransparentBackground
          THEN LET d == Draw(calls[p], Len(settings.BackgroundColors))
                   randomBackgroundColor ==
                       settings.BackgroundColors[d.value + 1]
                   h == hexConvert(randomBackgroundColor)
               IN  IF h.err # NoError THEN ReturnError(d.call, h.err)
                   ELSE [d.call EXCEPT
                           !.pc = "middle",
                           !.image = FillBackground(@, d.call.totalSize,
                                                    h.red, h.green, h.blue)]
          ELSE [calls[p] EXCEPT !.pc = "middle"]]
    /\ UNCHANGED <<settings, pathSet, middlePatchSet, harness>>

\* line 170
DrawMiddle(p) ==
    /\ calls[p].pc = "middle"
    /\ LET c == calls[p]
       IN  calls' = [calls EXCEPT ![p] =
              [c EXCEPT !.pc = "sides", !.i = 0,
                        !.image = drawPatch(Pt(1, 1), 0, c.middleInvert,
                                            c.middleType, c.image, c.totalSize,
                                            c.middleColor, c.penWidth)]]
    /\ UNCHANGED <<settings, pathSet, middlePatchSet, harness>>

\* the side positions in the order N, S, E, W
SidePositions_Swapped == <<Pt(1, 0), Pt(1, 2), Pt(2, 1), Pt(0, 1)>>
\* the corner positions in the order NW, NE, SW, SE
CornerPositions_Swapped == <<Pt(0, 0), Pt(2, 0), Pt(0, 2), Pt(2, 2)>>
\* []gg.Point{{1, 0}, {2, 1}, {1, 2}, {0, 1}}
SidePositions == <<Pt(1, 0), Pt(2, 1), Pt(1, 2), Pt(0, 1)>>
\* []gg.Point{{0, 0}, {2, 0}, {2, 2}, {0, 2}}
CornerPositions == <<Pt(0, 0), Pt(2, 0), Pt(2, 2), Pt(0, 2)>>

\* the loop's iteration, turning the catalog's template in place
DrawSide_InPlace(p) ==
    /\ calls[p].pc = "sides"
    /\ LET c == calls[p]
           last == c.i + 1 = Len(SidePositions)
       IN  calls' = [calls EXCEPT ![p] =
              [c EXCEPT !.pc = IF last THEN "corners" ELSE "sides",
                        !.i = IF last THEN 0 ELSE c.i + 1,
                        !.image = drawPatch(SidePositions[c.i + 1],
                                            c.sideTurn + 1 + c.i, c.sideInvert,
                                            c.sideType, c.image, c.totalSize,
                                            c.foreColor, c.penWidth)]]
    /\ pathSet' = [pathSet EXCEPT ![calls[p].sideType + 1] =
                      [j \in 1..Len(@) |-> RotatePoint(@[j], 1)]]
    /\ UNCHANGED <<settings, middlePatchSet, harness>>

\* lines 171-173: one iteration of the loop
DrawSide(p) ==
    /\ calls[p].pc = "sides"
    /\ LET c == calls[p]
           last == c.i + 1 = Len(SidePositions)
       IN  calls' = [calls EXCEPT ![p] =
              [c EXCEPT !.pc = IF last THEN "corners" ELSE "sides",
                        !.i = IF last THEN 0 ELSE c.i + 1,
                        !.image = drawPatch(SidePositions[c.i + 1],
                                            c.sideTurn + 1 + c.i, c.sideInvert,
                                            c.sideType, c.image, c.totalSize,
                                            c.foreColor, c.penWidth)]]
    /\ UNCHANGED <<settings, pathSet, middlePatchSet, harness>>

\* lines 174-176: one iteration of the loop
DrawCorner(p) ==
    /\ calls[p].pc = "corners"
    /\ LET c == calls[p]
           last == c.i + 1 = Len(CornerPositions)
       IN  calls' = [calls EXCEPT ![p] =
              [c EXCEPT !.pc = IF last THEN "return" ELSE "corners",
                        !.i = IF last THEN 0 ELSE c.i + 1,
                        !.image = drawPatch(CornerPositions[c.i + 1],
                                            c.cornerTurn + 1 + c.i,
                                            c.cornerInvert, c.cornerType,
                                            c.image, c.totalSize,
                                            c.secondColor, c.penWidth)]]
    /\ UNCHANGED <<settings, pathSet, middlePatchSet, harness>>

\* line 177: return image.Image(), nil
RenderReturn(p) ==
    /\ calls[p].pc = "return"
    /\ LET c == calls[p]
       IN  calls' = [calls EXCEPT ![p] =
              [c EXCEPT !.pc = "done",
                        !.ret = [isNil |-> FALSE, image |-> c.image,
                                 err |-> NoError]]]
    /\ UNCHANGED <<settings, pathSet, middlePatchSet, harness>>

---------------------------------------------------------------------------
(* drawPatch used directly: the same tile drawn plain and inverted.        *)

IdleHarness ==
    [active |-> FALSE, pos |-> Pt(0, 0), turn |-> 0, type |-> 0,
     totalSize |-> 0, color |-> RGBA(0, 0, 0, 0),
     plainDone |-> FALSE, plain |-> NilImage,
     invertedDone |-> FALSE, inverted |-> NilImage]

GridPositions == {Pt(x, y) : x \in 0..2, y \in 0..2}

NewHarness(pos, turn, type, totalSize) ==
    [IdleHarness EXCEPT !.active = TRUE, !.pos = pos, !.turn = turn,
                        !.type = type, !.totalSize = totalSize,
                        !.color = RGBA(232, 76, 61, 255),
                        !.plain = NewContext(totalSize),
                        !.inverted = NewContext(totalSize)]

PatchPlain ==
    /\ harness.active /\ ~harness.plainDone
    /\ harness' = [harness EXCEPT
          !.plainDone = TRUE,
          !.plain = drawPatch(harness.pos, harness.turn, FALSE, harness.type,
                              @, harness.totalSize, harness.color, 1)]
    /\ UNCHANGED <<settings, pathSet, middlePatchSet, calls>>

PatchInverted ==
    /\ harness.active /\ ~harness.invertedDone
    /\ harness' = [harness EXCEPT
          !.invertedDone = TRUE,
          !.inverted = drawPatch(harness.pos, harness.turn, TRUE, harness.type,
                                 @, harness.totalSize, harness.color, 1)]
    /\ UNCHANGED <<settings, pathSet, middlePatchSet, calls>>

---------------------------------------------------------------------------
(* Specifications.                                                         *)

\* one Render call
Init ==
    /\ settings \in AllSettings
    /\ pathSet = PathSetInit
    /\ middlePatchSet = MiddlePatchSetInit
    /\ calls \in [{1} -> {NewCall(c, t) : c \in Codes, t \in Sizes}]
    /\ harness = IdleHarness

\* NumCalls Render calls on the same settings, their steps interleaved
InitPar ==
    /\ settings \in ParSettings
    /\ pathSet = PathSetInit
    /\ middlePatchSet = MiddlePatchSetInit
    /\ calls \in [1..NumCalls -> {NewCall(c, t) : c \in ParCodes, t \in ParSizes}]
    /\ harness = IdleHarness

\* drawPatch alone
InitPatch ==
    /\ settings = DefaultSettings
    /\ pathSet = PathSetInit
    /\ middlePatchSet = MiddlePatchSetInit
    /\ calls = [p \in {} |-> 0]
    /\ harness \in {NewHarness(pos, turn, type, 300) :
                      pos \in GridPositions, turn \in 0..MaxTurn, type \in 0..15}

Next ==
    \/ \E p \in DOMAIN calls : RenderBegin(p)
    \/ \E p \in DOMAIN calls : FirstColor(p)
    \/ \E p \in DOMAIN calls : SecondColor(p)
    \/ \E p \in DOMAIN calls : ResolveColors(p)
    \/ \E p \in DOMAIN calls : Background(p)
    \/ \E p \in DOMAIN calls : DrawMiddle(p)
    \/ \E p \in DOMAIN calls : DrawSide(p)
    \/ \E p \in DOMAIN calls : DrawCorner(p)
    \/ \E p \in DOMAIN calls : RenderReturn(p)

NextPatch == PatchPlain \/ PatchInverted

Spec == Init /\ [][Next]_vars
SpecPar == InitPar /\ [][Next]_vars
SpecPatch == InitPatch /\ [][NextPatch]_vars

---------------------------------------------------------------------------
(* Vocabulary of the properties.                                           *)

Done(c) == c.pc = "done"
Succeeded(c) == Done(c) /\ c.ret.err = NoError
Failed(c) == Done(c) /\ c.ret.err # NoError

\* bit k of a code, bit 0 the least significant
Bit(c, k) == (c[k \div 16] \div Pow2(k % 16)) % 2

RECURSIVE BitField(_, _, _)
\* the number written by bits lo .. lo + width - 1 of a code
BitField(c, lo, width) ==
    IF width = 0 THEN 0
    ELSE Bit(c, lo) + 2 * BitField(c, lo + 1, width - 1)

\* 2 * x mod (2^31 - 1) for x below 2^31 - 1, within 32 bits
DoubleMod(x) ==
    IF x >= 1073741824 THEN 2 * (x - 1073741824) + 1 ELSE 2 * x

RECURSIVE TimesPow2Mod(_, _)
\* x * 2^n mod (2^31 - 1)
TimesPow2Mod(x, n) ==
    IF n = 0 THEN x ELSE DoubleMod(TimesPow2Mod(x, n - 1))

\* (x + y) mod (2^31 - 1) for x below 2^31 - 1 and y below 2^16
PlusMod(x, y) ==
    IF x >= MaxInt32 - y THEN x - (MaxInt32 - y) ELSE x + y

\* code mod (2^31 - 1), by Horner's rule over the limbs from the top
CodeMod(c) ==
    LET r3 == c[3]
        r2 == PlusMod(TimesPow2Mod(r3, 16), c[2])
        r1 == PlusMod(TimesPow2Mod(r2, 16), c[1])
    IN  PlusMod(TimesPow2Mod(r1, 16), c[0])

HexDigits == {"0", "1", "2", "3", "4", "5", "6", "7", "8", "9",
              "a", "b", "c", "d", "e", "f", "A", "B", "C", "D", "E", "F"}

\* exactly six hex digits after removing one optional leading '#'
IsSixHex(str) ==
    LET t == IF Len(str) > 0 /\ str[1] = "#" THEN Tail(str) ELSE str
    IN  Len(t) = 6 /\ \A i \in 1..6 : t[i] \in HexDigits

\* the string the k-th draw of a call sampled
Sampled(c, k) ==
    IF k <= 2 THEN settings.ColorPalette[c.draws[k].value + 1].Code
    ELSE settings.BackgroundColors[c.draws[k].value + 1]

\* the tiles drawn on an image, in drawing order
RECURSIVE Tiles(_)
Tiles(fills) ==
    IF fills = <<>> THEN <<>>
    ELSE IF fills[1].kind = "patch" THEN <<fills[1]>> \o Tiles(Tail(fills))
    ELSE Tiles(Tail(fills))

\* the tiles an image holds at a grid position
TilesAt(image, pos) ==
    {k \in 1..Len(image.fills) :
        image.fills[k].kind = "patch" /\ image.fills[k].pos = pos}

TileAt(image, pos) == image.fills[CHOOSE k \in TilesAt(image, pos) : TRUE]

\* a quarter turn clockwise of the 3x3 grid about its center (y grows down)
GridTurn(pos) == Pt(2 - pos.Y, pos.X)

Center == Pt(1, 1)

---------------------------------------------------------------------------
(* C7: bit-field decoding.                                                 *)

\* C7: once a Render call has decoded its code, its fields are the code's
\* bits 0-1 mapped through [0,4,8,15] (middle template), bit 2, bits 3-6,
\* bit 7, bits 8-9, bits 10-13, bit 14, bits 15-16 and bit 47; the middle
\* template is one of 0, 4, 8, 15, the corner and side templates are
\* catalog indices 0..15 and the turns are in 0..3.
C7_Decode ==
    \A p \in DOMAIN calls :
        LET c == calls[p]
        IN  c.pc # "start" =>
              /\ c.middleType = <<0, 4, 8, 15>>[BitField(c.code, 0, 2) + 1]
              /\ c.middleType \in {0, 4, 8, 15}
              /\ c.middleInvert = (Bit(c.code, 2) = 1)
              /\ c.cornerType = BitField(c.code, 3, 4)
              /\ c.cornerInvert = (Bit(c.code, 7) = 1)
              /\ c.cornerTurn = BitField(c.code, 8, 2)
              /\ c.sideType = BitField(c.code, 10, 4)
              /\ c.sideInvert = (Bit(c.code, 14) = 1)
              /\ c.sideTurn = BitField(c.code, 15, 2)
              /\ c.swapCross = (Bit(c.code, 47) = 1)
              /\ c.cornerType \in 0..15 /\ c.sideType \in 0..15
              /\ c.cornerTurn \in 0..3 /\ c.sideTurn \in 0..3

\* a decoded code whose sideTurn spans limbs 0 and 1, with bit 47 set and bits
\* set above and between the fields
C7_Witness ==
    \E p \in DOMAIN calls :
        LET c == calls[p]
        IN  /\ c.pc = "first"
            /\ c.sideTurn = 3 /\ c.swapCross /\ c.middleType = 15
            /\ c.cornerType > 8 /\ c.sideType > 0
            /\ c.code[3] # 0 /\ Bit(c.code, 45) = 1

---------------------------------------------------------------------------
(* C6: seeding, and the order of the draws.                                *)

\* the draws a call makes when none of its colors fails: two indices into
\* the palette of n entries, then, with a background, one into the nb
\* background colors; from a generator seeded with code mod (2^31 - 1)
ExpectedDraws(code, n, withBackground, nb) ==
    LET d1 == randIntn(randNewSource(CodeMod(code)), n)
        d2 == randIntn(d1.state, n)
        d3 == randIntn(d2.state, nb)
    IN  <<[n |-> n, value |-> d1.value], [n |-> n, value |-> d2.value]>>
        \o (IF withBackground THEN <<[n |-> nb, value |-> d3.value]>>
            ELSE <<>>)

Prefix(seq, n) == [j \in 1..n |-> seq[j]]

---------------------------------------------------------------------------
(* C9: when Render fails.                                                  *)

\* C9: a finished Render call has failed exactly if one of the strings it
\* sampled is not six hex digits after one optional '#'; the strings are
\* checked in the order first palette entry, second palette entry (with
\* twoColor false too), background entry (only without a transparent
\* background), and the first failure ends the call with that string's
\* error: then nothing has been filled or drawn and the image returned is
\* nil; a call that succeeds returns no error and an image.
C9_FailsIffSampledInvalid ==
    \A p \in DOMAIN calls :
        LET c == calls[p]
            k == Len(c.draws)
            all == IF settings.TransparentBackground THEN 2 ELSE 3
        IN  Done(c) =>
              /\ Failed(c) <=> \E j \in 1..k : ~IsSixHex(Sampled(c, j))
              /\ Failed(c) =>
                    /\ \A j \in 1..(k - 1) : IsSixHex(Sampled(c, j))
                    /\ ~IsSixHex(Sampled(c, k))
                    /\ c.ret.err = hexConvert(Sampled(c, k)).err
                    /\ c.ret.isNil
                    /\ c.image.fills = <<>>
              /\ Succeeded(c) =>
                    /\ k = all
                    /\ ~c.ret.isNil
                    /\ c.ret.image = c.image
              /\ c.ret.err = NoError \/ c.ret.err.kind \in
                    {"InvalidByteError", "ErrLength", "errors.New"}

\* a call with twoColor false that failed on its second palette entry
C9_Witness ==
    \E p \in DOMAIN calls :
        /\ Failed(calls[p])
        /\ Len(calls[p].draws) = 2
        /\ ~settings.TwoColor
        /\ calls[p].ret.err = ErrNotSixDigits

---------------------------------------------------------------------------
(* C2: a palette with an invalid entry.                                    *)

PaletteHasInvalidEntry ==
    \E i \in 1..Len(settings.ColorPalette) :
        ~IsSixHex(settings.ColorPalette[i].Code)

\* C2 as stated: a finished Render call whose palette holds an entry with an
\* invalid hex string has failed and returned no image.
C2_Original ==
    \A p \in DOMAIN calls :
        (Done(calls[p]) /\ PaletteHasInvalidEntry)
            => (Failed(calls[p]) /\ calls[p].ret.isNil)

\* C2 amended: a finished Render call has failed and returned no image
\* whenever a palette entry it sampled (by its first or second draw) is an
\* invalid hex string; and when both palette entries it sampled are valid
\* and its background is transparent or the background entry it sampled is
\* valid, it has succeeded, whatever else the palette holds.
C2_SampledInvalidFails ==
    \A p \in DOMAIN calls :
        LET c == calls[p]
            k == Len(c.draws)
        IN  Done(c) =>
              /\ (\E j \in 1..(IF k < 2 THEN k ELSE 2) :
                      ~IsSixHex(Sampled(c, j)))
                    => (Failed(c) /\ c.ret.isNil /\ c.ret.image = NilImage)
              /\ (/\ k >= 2
                  /\ IsSixHex(Sampled(c, 1)) /\ IsSixHex(Sampled(c, 2))
                  /\ \/ settings.TransparentBackground
                     \/ k = 3 /\ IsSixHex(Sampled(c, 3)))
                    => (Succeeded(c) /\ ~c.ret.isNil)

\* a call that failed on "#zzz", sampled second
C2_Witness ==
    \E p \in DOMAIN calls :
        /\ Failed(calls[p])
        /\ Len(calls[p].draws) = 2
        /\ Sampled(calls[p], 2) = <<"#", "z", "z", "z">>
        /\ calls[p].ret.err = InvalidByteError("z")

---------------------------------------------------------------------------
(* C8: the default settings.                                               *)

DefaultsAreValid ==
    /\ \A i \in 1..Len(DefaultSettings.ColorPalette) :
          IsSixHex(DefaultSettings.ColorPalette[i].Code)
    /\ \A i \in 1..Len(DefaultSettings.BackgroundColors) :
          IsSixHex(DefaultSettings.BackgroundColors[i])

DefaultsNeverFail ==
    \A p \in DOMAIN calls :
        (settings = DefaultSettings /\ Done(calls[p]))
            => (Succeeded(calls[p]) /\ ~calls[p].ret.isNil)

DefaultFlags ==
    /\ Len(DefaultSettings.BackgroundColors) = 4
    /\ DefaultSettings.TwoColor = TRUE
    /\ DefaultSettings.Alpha = 255
    /\ DefaultSettings.TransparentBackground = FALSE

\* C8 as stated: the default settings hold a palette of 36 entries, four
\* background colors, twoColor true, alpha 255, transparentBackground false,
\* every entry is a valid six-digit hex color, and no Render call with the
\* default settings fails.
C8_Original ==
    /\ Len(DefaultSettings.ColorPalette) = 36
    /\ DefaultFlags /\ DefaultsAreValid /\ DefaultsNeverFail

\* C8 amended: the same with a palette of 37 entries.
C8_Defaults ==
    /\ Len(DefaultSettings.ColorPalette) = 37
    /\ DefaultFlags /\ DefaultsAreValid /\ DefaultsNeverFail

\* a call with the default settings that has returned its image: the
\* background and the nine tiles
C8_Witness ==
    \E p \in DOMAIN calls :
        /\ settings = DefaultSettings
        /\ Succeeded(calls[p])
        /\ Len(calls[p].ret.image.fills) = 10
        /\ calls[p].draws[1].n = 37

---------------------------------------------------------------------------
(* C10: the order of the drawing steps.                                    *)

\* what a tile's fill records of the drawPatch call that made it
TileView(f) ==
    [pos |-> f.pos, turn |-> f.turn, invert |-> f.invert, type |-> f.type,
     color |-> f.color, translate |-> f.translate]

\* a tile at grid position pos whose frame is translated to
\* pos * patchSize + offset, the offset in sixths of a pixel
ExpectedTile(pos, turn, invert, type, color, totalSize, offset) ==
    [pos |-> pos, turn |-> turn % 4, invert |-> invert, type |-> type,
     color |-> color,
     translate |-> Pt(pos.X * (2 * totalSize) + offset,
                      pos.Y * (2 * totalSize) + offset)]

\* the nine tiles of a call in the order of the claim
ExpectedTiles(c, offset) ==
    LET foreColor == RGBA(c.first.red, c.first.green, c.first.blue,
                          settings.Alpha)
        otherColor == IF settings.TwoColor
                      THEN RGBA(c.second.red, c.second.green, c.second.blue,
                                settings.Alpha)
                      ELSE foreColor
        middleColor == IF c.swapCross THEN foreColor ELSE otherColor
        sides == <<Pt(1, 0), Pt(2, 1), Pt(1, 2), Pt(0, 1)>>
        corners == <<Pt(0, 0), Pt(2, 0), Pt(2, 2), Pt(0, 2)>>
    IN  <<ExpectedTile(Pt(1, 1), 0, c.middleInvert, c.middleType, middleColor,
                       c.totalSize, offset)>>
        \o [j \in 1..4 |->
              ExpectedTile(sides[j], c.sideTurn + 1 + (j - 1), c.sideInvert,
                           c.sideType, foreColor, c.totalSize, offset)]
        \o [j \in 1..4 |->
              ExpectedTile(corners[j], c.cornerTurn + 1 + (j - 1),
                           c.cornerInvert, c.cornerType, otherColor,
                           c.totalSize, offset)]

\* the drawing order of the claim, with the tile frames at the given offset
DrawOrder(offset) ==
    \A p \in DOMAIN calls :
        LET c == calls[p]
            fills == c.image.fills
            tiles == Tiles(fills)
            views == [j \in 1..Len(tiles) |-> TileView(tiles[j])]
            background == IF settings.TransparentBackground THEN 0 ELSE 1
        IN  /\ c.pc \in {"middle", "sides", "corners", "return"}
               \/ Succeeded(c) =>
                  \* the background fill, if any, comes first and only first
                  /\ Len(fills) = background + Len(tiles)
                  /\ background = 1 =>
                        /\ fills[1].kind = "rect"
                        /\ fills[1].extent = 6 * c.totalSize
                        /\ LET h == hexConvert(Sampled(c, 3))
                           IN  fills[1].color = RGBA(h.red, h.green, h.blue, 255)
                  \* the tiles so far are the first ones of the nine
                  /\ Len(tiles) <= 9
                  /\ views = Prefix(ExpectedTiles(c, offset), Len(tiles))
            /\ Succeeded(c) =>
                  /\ Len(tiles) = 9
                  /\ c.ret.image = c.image
                  /\ \A pos \in GridPositions :
                        Cardinality(TilesAt(c.image, pos)) = 1

\* C10 as stated: a Render call fills the background first (exactly when
\* transparentBackground is false), then draws the middle tile at (1,1) with
\* rotation 0 and the middle color, then the side tiles at N, E, S, W with
\* rotation (sideTurn+1+i) mod 4 and foreColor, then the corner tiles at NW,
\* NE, SE, SW with rotation (cornerTurn+1+i) mod 4 and otherColor; nine
\* tiles, each grid position once; each tile's frame translated to
\* (gridPos.x * patchSize, gridPos.y * patchSize).
C10_Original == DrawOrder(0)

\* C10 amended: the same, with each tile's frame translated to
\* (gridPos.x * patchSize + 1/2, gridPos.y * patchSize + 1/2): half the pen
\* width of 1 pixel beyond the tile's pixel origin.
C10_DrawOrder == DrawOrder(3)

\* a finished call with a background, two colors, bit 47 clear and turns
\* that wrap around
C10_Witness ==
    \E p \in DOMAIN calls :
        LET c == calls[p]
        IN  /\ Succeeded(c)
            /\ Len(c.image.fills) = 10
            /\ settings.TwoColor /\ ~c.swapCross
            /\ c.foreColor # c.secondColor
            /\ c.sideTurn = 3 /\ c.cornerTurn = 2
            /\ c.image.fills[10].pos = Pt(0, 2)
            /\ c.image.fills[10].translate = Pt(3, 4 * c.totalSize + 3)

---------------------------------------------------------------------------
(* C4: the rotational symmetry of the layout.                              *)

\* the corner points of a template, as a set
TemplatePoints(type) == {pathSet[type + 1][j] : j \in 1..Len(pathSet[type + 1])}

\* C4: in the image of a Render call that succeeded, a quarter turn
\* clockwise of the grid takes N to E, E to S, S to W, W to N and NW to NE,
\* NE to SE, SE to SW, SW to NW, and the tile at the image of a position has
\* the template, invert flag and color of the tile at the position and one
\* quarter turn more (mod 4); the middle tile is drawn with rotation 0 and
\* a template among 0, 4, 8, 15, whose points and whose filled region are
\* unchanged by a quarter turn about the tile's center.
C4_Symmetry ==
    /\ GridTurn(Pt(1, 0)) = Pt(2, 1) /\ GridTurn(Pt(2, 1)) = Pt(1, 2)
    /\ GridTurn(Pt(1, 2)) = Pt(0, 1) /\ GridTurn(Pt(0, 1)) = Pt(1, 0)
    /\ GridTurn(Pt(0, 0)) = Pt(2, 0) /\ GridTurn(Pt(2, 0)) = Pt(2, 2)
    /\ GridTurn(Pt(2, 2)) = Pt(0, 2) /\ GridTurn(Pt(0, 2)) = Pt(0, 0)
    /\ \A p \in DOMAIN calls :
          LET c == calls[p]
              image == c.ret.image
              middle == TileAt(image, Center)
          IN  Succeeded(c) =>
                /\ \A pos \in GridPositions :
                      Cardinality(TilesAt(image, pos)) = 1
                /\ \A pos \in GridPositions \ {Center} :
                      LET a == TileAt(image, pos)
                          b == TileAt(image, GridTurn(pos))
                      IN  /\ b.type = a.type
                          /\ b.invert = a.invert
                          /\ b.color = a.color
                          /\ b.turn = (a.turn + 1) % 4
                /\ middle.turn = 0
                /\ middle.type \in {0, 4, 8, 15}
                /\ {RotatePoint(q, 1) : q \in TemplatePoints(middle.type)}
                      = TemplatePoints(middle.type)
                /\ FilledRegion([middle EXCEPT !.turn = 1])
                      = FilledRegion(middle)

\* a finished call whose side tiles are not themselves symmetric, with a
\* small square in the middle
C4_Witness ==
    \E p \in DOMAIN calls :
        LET c == calls[p]
        IN  /\ Succeeded(c)
            /\ c.middleType = 8
            /\ c.sideType \notin {0, 4, 8, 15}
            /\ c.cornerType \notin {0, 4, 8, 15}
            /\ TileAt(c.ret.image, Pt(0, 1)).turn = 3
            /\ TileAt(c.ret.image, Pt(1, 0)).turn = 0

---------------------------------------------------------------------------
(* C5: the invert complement law.                                          *)

LastFill(image) == image.fills[Len(image.fills)]

\* C5: when drawPatch has drawn the same template at the same grid position
\* with the same rotation and color, once plain and once inverted, the two
\* filled regions are disjoint and together cover the tile; for the empty
\* template 15 the plain fill covers nothing and the inverted one the
\* whole tile.
C5_InvertComplement ==
    (harness.plainDone /\ harness.invertedDone) =>
        LET plain == LastFill(harness.plain)
            inverted == LastFill(harness.inverted)
        IN  /\ Len(harness.plain.fills) = 1 /\ Len(harness.inverted.fills) = 1
            /\ plain.translate = inverted.translate
            /\ plain.turn = inverted.turn /\ plain.color = inverted.color
            /\ ~plain.invert /\ inverted.invert
            /\ FilledRegion(plain) \cap FilledRegion(inverted) = {}
            /\ FilledRegion(plain) \cup FilledRegion(inverted) = TileSamples
            /\ harness.type = 15 =>
                  /\ FilledRegion(plain) = {}
                  /\ FilledRegion(inverted) = TileSamples
            /\ harness.type # 15 => FilledRegion(plain) # {}
            /\ harness.type # 0 => FilledRegion(inverted) # {}

\* the template with a hole (6), turned, drawn both ways at the last grid
\* position
C5_Witness ==
    /\ harness.plainDone /\ harness.invertedDone
    /\ harness.type = 6 /\ harness.turn = 7 /\ harness.pos = Pt(2, 2)
    /\ Cardinality(FilledRegion(LastFill(harness.plain))) = 24
    /\ Cardinality(FilledRegion(LastFill(harness.inverted))) = 40

---------------------------------------------------------------------------
(* C1: Render is a pure function.                                          *)

\* finished calls with the same arguments have the same outcome: the same
\* error, or the same image (the background fill and the nine tiles)
SameArgumentsSameOutcome ==
    \A p, q \in DOMAIN calls :
        (/\ Done(calls[p]) /\ Done(calls[q])
         /\ calls[p].code = calls[q].code
         /\ calls[p].totalSize = calls[q].totalSize)
            => calls[p].ret = calls[q].ret

\* C1: no step of a Render call changes the settings, the patch catalog or
\* the middle lookup table, a step changes the state of one call only, and
\* after every step any two finished calls with the same code and size, on
\* the same settings, have returned the same outcome, however the steps of
\* the calls were interleaved.
C1_Pure ==
    [][/\ settings' = settings
       /\ pathSet' = pathSet
       /\ middlePatchSet' = middlePatchSet
       /\ Cardinality({p \in DOMAIN calls : calls'[p] # calls[p]}) <= 1
       /\ SameArgumentsSameOutcome']_vars

\* two calls with the same arguments have both returned an image, while
\* their steps were interleaved: the second call started before the first
\* had finished, and finished first
C1_Witness ==
    /\ Succeeded(calls[1]) /\ calls[2].pc = "return"
    /\ calls[1].code = calls[2].code
    /\ calls[1].image = calls[2].image
    /\ Len(calls[1].ret.image.fills) = 10

---------------------------------------------------------------------------
(* C3: flipping bit 47.                                                    *)

\* the codes differ in bit 47 and in no other bit
DifferInBit47Only(c1, c2) ==
    /\ c1[0] = c2[0] /\ c1[1] = c2[1] /\ c1[3] = c2[3]
    /\ c1[2] % 32768 = c2[2] % 32768
    /\ c1[2] # c2[2]

\* two calls that succeeded, on codes that differ in bit 47 only
FlippedPair(p, q) ==
    /\ Succeeded(calls[p]) /\ Succeeded(calls[q])
    /\ calls[p].totalSize = calls[q].totalSize
    /\ DifferInBit47Only(calls[p].code, calls[q].code)

MiddleShapeKept(p, q) ==
    LET a == TileAt(calls[p].ret.image, Center)
        b == TileAt(calls[q].ret.image, Center)
    IN  a.type = b.type /\ a.invert = b.invert

OuterShapesKept(p, q) ==
    \A pos \in GridPositions \ {Center} :
        LET a == TileAt(calls[p].ret.image, pos)
            b == TileAt(calls[q].ret.image, pos)
        IN  a.type = b.type /\ a.invert = b.invert /\ a.turn = b.turn

OuterColorsKept(p, q) ==
    \A pos \in GridPositions \ {Center} :
        TileAt(calls[p].ret.image, pos).color
            = TileAt(calls[q].ret.image, pos).color

MiddleColorChanged(p, q) ==
    TileAt(calls[p].ret.image, Center).color
        # TileAt(calls[q].ret.image, Center).color

\* C3 as stated: flipping only bit 47 of the code changes the middle tile's
\* color and leaves the middle tile's template and invert flag and the side
\* and corner tiles' template, invert flag, rotation and color unchanged.
C3_Original ==
    \A p, q \in DOMAIN calls :
        FlippedPair(p, q) =>
            /\ MiddleColorChanged(p, q)
            /\ MiddleShapeKept(p, q)
            /\ OuterShapesKept(p, q)
            /\ OuterColorsKept(p, q)

\* C3 amended: flipping only bit 47 of the code flips swapCross and leaves
\* unchanged the middle tile's template and invert flag and the side and
\* corner tiles' template, invert flag and rotation.  (The colors are not
\* kept: bit 47 is part of the generator's seed.)
C3_ShapesKept ==
    \A p, q \in DOMAIN calls :
        FlippedPair(p, q) =>
            /\ calls[p].swapCross # calls[q].swapCross
            /\ MiddleShapeKept(p, q)
            /\ OuterShapesKept(p, q)

\* two finished calls on codes that differ in bit 47 only, whose seeds and
\* whose side tiles' colors differ
C3_Witness ==
    \E p, q \in DOMAIN calls :
        /\ FlippedPair(p, q)
        /\ calls[p].swapCross /\ ~calls[q].swapCross
        /\ SeedOf(calls[p].code) # SeedOf(calls[q].code)
        /\ ~OuterColorsKept(p, q)

=============================================================================
